---- MODULE Spec2Model ----
(***************************************************************************)
(* The weather-archive fetcher of stephenc/ireland-weather-data.           *)
(*                                                                         *)
(* Two programs of the repository are modelled:                            *)
(*   prog = "pool" : the worker-pool fetcher (src/unnamed/part_001): main  *)
(*                   starts maxParallel goroutines that range over the     *)
(*                   buffered channel `tasks` and call fetchOne;           *)
(*   prog = "seq"  : the sequential fetcher (src/main.go): main fetches    *)
(*                   every URL of data-sources.yaml in its own loop.       *)
(* Both share the file formats, the destination naming rule, readMetadata  *)
(* and writeMetadata.  The HTTP origin and the file system are the         *)
(* environment: every call into them is a nondeterministic choice over the *)
(* results the call can produce.                                           *)
(***************************************************************************)
EXTENDS Integers, Sequences, FiniteSets, TLC

(***************************************************************************)
(* Bounds of the model                                                     *)
(***************************************************************************)
\* const maxParallel (part_001:35) is 16 in the source; the model runs the
\* same code with a smaller pool and a smaller channel buffer.
maxParallel == 2

\* number of runs of the program in a row that RerunSpec follows
MaxRuns == 2

Workers == 1..maxParallel

(***************************************************************************)
(* Values                                                                  *)
(***************************************************************************)
\* A URL of data-sources.yaml, as far as the program looks into it:
\* scheme (empty: url.Parse fails), host, and the last path segment split
\* into its stem and whether it ends in ".csv".
Url(s, h, n, c) == [scheme |-> s, host |-> h, name |-> n, csv |-> c]
U1 == Url("http", "x", "a", TRUE)     \* http://x/a.csv
U2 == Url("http", "x", "b", TRUE)     \* http://x/b.csv
U3 == Url("http", "x", "c", TRUE)     \* http://x/c.csv
U4 == Url("http", "x", "d", TRUE)     \* http://x/d.csv
U5 == Url("http", "x", "e", TRUE)     \* http://x/e.csv
U1y == Url("http", "y", "a", TRUE)    \* http://y/a.csv : same basename as U1
U1n == Url("http", "x", "a", FALSE)   \* http://x/a     : no .csv suffix
UBad == Url("", "x", "z", TRUE)       \* ://x/z.csv     : NewRequest fails
AllUrls == {U1, U2, U3, U4, U5, U1y, U1n, UBad}

\* type fetchTask struct { dir, url string }; id (directory, position in the
\* directory's list) names the catalog entry the task was made from.
FetchTask(d, u, k) == [dir |-> d, url |-> u, id |-> <<d, k>>]
NoTask == [dir |-> "", url |-> U1, id |-> <<"", 0>>]

\* type MetadataEntry struct { LastModified, ETag string }
MetadataEntry(lm, et) == [LastModified |-> lm, ETag |-> et]
ZeroEntry == MetadataEntry("", "")

\* type Metadata map[string]MetadataEntry: per URL, whether the key is in the
\* map and the entry under it.
NoKey == [present |-> FALSE, entry |-> ZeroEntry]
Key(e) == [present |-> TRUE, entry |-> e]
EmptyMetadata == [u \in AllUrls |-> NoKey]

\* (mutant) the read that forgets what the map holds
MapGetZero(m, u) == ZeroEntry

\* metadata[url]: a Go map read gives the zero value for a missing key.
MapGet(m, u) == m[u].entry

\* (mutant) the write that replaces the map by one holding only the new entry
MapSetAlone(m, u, e) == [EmptyMetadata EXCEPT ![u] = Key(e)]

\* metadata[url] = e
MapSet(m, u, e) == [m EXCEPT ![u] = Key(e)]

\* http.ParseTime accepts the three HTTP date layouts; "T0", "T1" stand for
\* strings in one of them, "bad" for a header value in none of them.
ParseableTimes == {"T0", "T1"}
ParseTimeOk(lm) == lm \in ParseableTimes

\* What the origin holds for a URL: the validators it sends and the body.
BodyOf(u) == "body-" \o u.host \o "-" \o u.name \o (IF u.csv THEN ".csv" ELSE "")
ETagOf(u) == "v1-" \o u.host \o "-" \o u.name \o (IF u.csv THEN ".csv" ELSE "")
OldETagOf(u) == "v0-" \o u.host \o "-" \o u.name \o (IF u.csv THEN ".csv" ELSE "")
Resource(lm, et, u) == [lm |-> lm, etag |-> et, body |-> BodyOf(u)]

\* The origins the model runs against: which validators they send.
Profiles == {"both", "etagonly", "lmonly", "badlm", "badlmetag", "none"}
RemoteOf(profile, u) ==
    CASE profile = "both"      -> Resource("T1", ETagOf(u), u)
      [] profile = "etagonly"  -> Resource("", ETagOf(u), u)
      [] profile = "lmonly"    -> Resource("T1", "", u)
      [] profile = "badlm"     -> Resource("bad", "", u)
      [] profile = "badlmetag" -> Resource("bad", ETagOf(u), u)
      [] OTHER                 -> Resource("", "", u)

\* An HTTP response as the program reads it; status 0 stands for the error
\* return of http.DefaultClient.Do (no response).
Response(st, lm, et, body) == [status |-> st, lm |-> lm, etag |-> et, body |-> body]
NoResp == Response(-1, "", "", "")
TransportError == Response(0, "", "", "")
ErrorPage == Response(500, "", "", "errorpage")

\* The origin's answer to a GET with the given If-Modified-Since and
\* If-None-Match headers: 304 when the validators sent are the resource's,
\* 200 with the resource otherwise.
Serve(res, ims, inm) ==
    IF inm # "" THEN
        IF inm = res.etag THEN Response(304, res.lm, res.etag, "")
        ELSE Response(200, res.lm, res.etag, res.body)
    ELSE IF ims # "" /\ ims = res.lm THEN Response(304, res.lm, res.etag, "")
    ELSE Response(200, res.lm, res.etag, res.body)

\* The failures of the environment: MkdirAll, the HTTP exchange, CreateTemp,
\* io.Copy, Rename, Chtimes, and the three calls of writeMetadata.
AllFaults == {"mkdir", "http", "createtemp", "copy", "rename", "chtimes", "persist"}

\* The ways a call can end where the environment can make it fail: TRUE is
\* success.
Results(fs, f) == IF f \in fs THEN BOOLEAN ELSE {TRUE}

\* Every result http.DefaultClient.Do can hand back for a request.
DoResults(fs, res, ims, inm) ==
    {Serve(res, ims, inm)} \cup (IF "http" \in fs THEN {TransportError, ErrorPage} ELSE {})

(***************************************************************************)
(* Files                                                                   *)
(***************************************************************************)
Names == {u.name : u \in AllUrls}
Days == 1..MaxRuns
Dirs == {"d1", "d2"}

\* filepath.Base(url): the last path segment.
Base(u) == [stem |-> u.name, csv |-> u.csv]

\* strings.TrimSuffix(base, ".csv")
TrimSuffix(b) == b.stem

\* outPath := filepath.Join(dir, strings.TrimSuffix(base, ".csv")+"-"+today+".csv")
OutPath(d, u, day) == <<d, TrimSuffix(Base(u)), day>>

Paths == Dirs \X Names \X Days

\* A file of the archive: its bytes and its modification time ("now": the
\* time it was written; otherwise the time os.Chtimes set).
NoFile == [exists |-> FALSE, content |-> "", mtime |-> ""]
File(c, mt) == [exists |-> TRUE, content |-> c, mtime |-> mt]

\* Temporary files: os.CreateTemp(dir, "tmp") makes "tmp<random>" in dir and
\* never hands out a name that exists.  The random part is modelled as fresh:
\* the run and the task that asked for it (a task creates at most one).
TmpFile(r, t, c) == [name |-> <<r, t.id>>, dir |-> t.dir, content |-> c]
NoTmp == <<0, <<"", 0>>>>
Partial(body) == "partial-" \o body

(***************************************************************************)
(* .metadata.yaml                                                          *)
(***************************************************************************)
\* yaml Encode of a Metadata map: one mapping per key, holding the fields
\* that are not empty (`yaml:"...,omitempty"`).
EncodeEntry(e) ==
    (IF e.LastModified = "" THEN {} ELSE {<<"last_modified", e.LastModified>>})
    \cup (IF e.ETag = "" THEN {} ELSE {<<"etag", e.ETag>>})
Encode(m) == [u \in AllUrls |-> [present |-> m[u].present,
                                 fields |-> IF m[u].present THEN EncodeEntry(m[u].entry) ELSE {}]]

\* yaml Decode into a Metadata map: a field the mapping lacks stays "".
Field(fs, k) == IF \E f \in fs : f[1] = k THEN (CHOOSE f \in fs : f[1] = k)[2] ELSE ""
Decode(doc) == [u \in AllUrls |->
                  IF doc[u].present
                  THEN Key(MetadataEntry(Field(doc[u].fields, "last_modified"), Field(doc[u].fields, "etag")))
                  ELSE NoKey]

\* The metadata file: absent, or a YAML document.
NoMetadataFile == [exists |-> FALSE, doc |-> Encode(EmptyMetadata)]
\* (mutant) a writeMetadata that writes an empty document
MetadataFileOfNothing(m) == [exists |-> TRUE, doc |-> Encode(EmptyMetadata)]
MetadataFileOf(m) == [exists |-> TRUE, doc |-> Encode(m)]

\* func readMetadata() Metadata
readMetadata(f) == IF f.exists THEN Decode(f.doc) ELSE EmptyMetadata

(***************************************************************************)
(* Catalogs (data-sources.yaml) and the scenarios the model starts from    *)
(***************************************************************************)
\* type DataSources map[string][]string, as a function from the directories
\* it names to their URL lists.
Catalog1(l1) == [d \in {"d1"} |-> l1]
Catalog2(l1, l2) == [d \in {"d1", "d2"} |-> IF d = "d1" THEN l1 ELSE l2]
CatEmpty == [d \in {} |-> <<>>]
\* three tasks in two directories, all URLs different
CatMain == Catalog2(<<U1, U2>>, <<U3>>)
\* five tasks in one directory
CatBig == Catalog1(<<U1, U2, U3, U4, U5>>)
CatPair == Catalog2(<<U1>>, <<U2>>)
CatOne == Catalog1(<<U1>>)
CatBad == Catalog1(<<UBad, U1>>)
CatDup == Catalog1(<<U1, U1>>)
CatClash == Catalog1(<<U1, U1y>>)
CatNoCsv == Catalog2(<<U1n>>, <<>>)

UrlsOf(ds) == UNION {{ds[d][k] : k \in 1..Len(ds[d])} : d \in DOMAIN ds}
TaskIds(ds) == UNION {{<<d, k>> : k \in 1..Len(ds[d])} : d \in DOMAIN ds}
TaskOf(ds, id) == FetchTask(id[1], ds[id[1]][id[2]], id[2])

\* The metadata file a run may find: none, one written against an older
\* state of the origin, one that matches the origin, one that matches it for
\* U1 only.
StoreKinds == {"nofile", "stale", "fresh", "mixed"}
StaleEntry(u) == MetadataEntry("T0", OldETagOf(u))
FreshEntry(profile, u) ==
    LET r == RemoteOf(profile, u)
    IN MetadataEntry(IF ParseTimeOk(r.lm) THEN r.lm ELSE "", r.etag)
InitialFile(kind, profile, ds) ==
    IF kind = "nofile" THEN NoMetadataFile
    ELSE MetadataFileOf([u \in AllUrls |->
            IF u \notin UrlsOf(ds) THEN NoKey
            ELSE IF kind = "stale" \/ (kind = "mixed" /\ u # U1) THEN Key(StaleEntry(u))
            ELSE Key(FreshEntry(profile, u))])

Scenario(p, ds, pr, kind, fs) == [prog |-> p, ds |-> ds, profile |-> pr, store |-> kind, faults |-> fs]

(***************************************************************************)
(* State                                                                   *)
(***************************************************************************)
VARIABLES
    prog,          \* which program runs: "pool" (part_001) or "seq" (main.go)
    dataSources,   \* dataSources := readDataSources()
    profile,       \* the origin the run talks to
    faults,        \* the failures the environment of this run can produce
    today,         \* today := time.Now().Format(dateFormat), as a day number
    run,           \* how many times the program has been started
    metadataFile,  \* .metadata.yaml on disk
    files,         \* the archive: path -> file
    temps,         \* the temporary files that exist
    dirsMade,      \* directories os.MkdirAll has made
    metadata,      \* metadata := readMetadata(), the shared map
    hadError,      \* the shared failure flag
    mainpc,        \* where main is
    spawned,       \* i of the worker-starting loop
    dirsLeft,      \* directories `range dataSources` has not yielded yet
    curDir,        \* dir of the dispatch loop ("" before the first)
    nextUrl,       \* index of the next url of dataSources[curDir]
    tasks,         \* the buffered channel
    closed,        \* close(tasks) has run
    wg,            \* the WaitGroup counter
    mu,            \* the mutex: 0 when free, else the worker holding it
    pc,            \* per worker: where the goroutine is
    task,          \* per worker: the task received
    meta,          \* per worker: fetchOne's meta
    resp,          \* per worker: fetchOne's resp
    tmpFile,       \* per worker: tmpFile.Name()
    newMeta,       \* per worker: fetchOne's newMeta
    err,           \* per worker: fetchOne is returning a non-nil error
    seq,           \* the locals of main.go's loop body
    exitCode,      \* the process exit status (-1 while it runs)
    outcome,       \* per task of this run: "none", "Fetched", "Unchanged", "Failed"
    reqs,          \* per task: HTTP requests sent in this run
    recvs,         \* per task: how many times a worker received it
    respLog,       \* per task: the response its metadata was built from
    persistCount,  \* calls of writeMetadata that replaced the file in this run
    loaded,        \* the map as readMetadata returned it in this run
    prev           \* what the previous run left: outcomes, metadata file, archive

envVars == <<prog, dataSources, profile, faults, today, run>>
diskVars == <<metadataFile, files, temps, dirsMade>>
sharedVars == <<metadata, hadError>>
mainVars == <<mainpc, spawned, dirsLeft, curDir, nextUrl, exitCode>>
chanVars == <<tasks, closed, wg>>
workerVars == <<pc, task, meta, resp, tmpFile, newMeta, err>>
histVars == <<outcome, reqs, recvs, respLog, persistCount, loaded, prev>>
vars == <<envVars, diskVars, sharedVars, mainVars, chanVars, mu, workerVars, seq, histVars>>

NoSeq == [task |-> NoTask, meta |-> ZeroEntry, resp |-> NoResp, tmpFile |-> NoTmp]
NoPrev == [outcome |-> <<>>, metadataFile |-> NoMetadataFile, files |-> [p \in Paths |-> NoFile]]

\* The state of a process that has just read its two input files.
Started(p, ds, f) ==
    /\ prog = p
    /\ dataSources = ds
    /\ metadata = readMetadata(f)
    /\ loaded = readMetadata(f)
    /\ hadError = FALSE
    /\ mainpc = IF p = "pool" THEN "spawn" ELSE "range"
    /\ spawned = 0
    /\ dirsLeft = DOMAIN ds
    /\ curDir = ""
    /\ nextUrl = 1
    /\ tasks = <<>>
    /\ closed = FALSE
    /\ wg = 0
    /\ mu = 0
    /\ pc = [w \in Workers |-> "nostart"]
    /\ task = [w \in Workers |-> NoTask]
    /\ meta = [w \in Workers |-> ZeroEntry]
    /\ resp = [w \in Workers |-> NoResp]
    /\ tmpFile = [w \in Workers |-> NoTmp]
    /\ newMeta = [w \in Workers |-> ZeroEntry]
    /\ err = [w \in Workers |-> FALSE]
    /\ seq = NoSeq
    /\ exitCode = -1
    /\ outcome = [t \in TaskIds(ds) |-> "none"]
    /\ reqs = [t \in TaskIds(ds) |-> 0]
    /\ recvs = [t \in TaskIds(ds) |-> 0]
    /\ respLog = [t \in TaskIds(ds) |-> NoResp]
    /\ persistCount = 0

\* The same, as the effect of starting the process.
Start(p, ds, f) ==
    /\ metadata' = readMetadata(f)
    /\ loaded' = readMetadata(f)
    /\ hadError' = FALSE
    /\ mainpc' = IF p = "pool" THEN "spawn" ELSE "range"
    /\ spawned' = 0
    /\ dirsLeft' = DOMAIN ds
    /\ curDir' = ""
    /\ nextUrl' = 1
    /\ tasks' = <<>>
    /\ closed' = FALSE
    /\ wg' = 0
    /\ mu' = 0
    /\ pc' = [w \in Workers |-> "nostart"]
    /\ task' = [w \in Workers |-> NoTask]
    /\ meta' = [w \in Workers |-> ZeroEntry]
    /\ resp' = [w \in Workers |-> NoResp]
    /\ tmpFile' = [w \in Workers |-> NoTmp]
    /\ newMeta' = [w \in Workers |-> ZeroEntry]
    /\ err' = [w \in Workers |-> FALSE]
    /\ seq' = NoSeq
    /\ exitCode' = -1
    /\ outcome' = [t \in TaskIds(ds) |-> "none"]
    /\ reqs' = [t \in TaskIds(ds) |-> 0]
    /\ recvs' = [t \in TaskIds(ds) |-> 0]
    /\ respLog' = [t \in TaskIds(ds) |-> NoResp]
    /\ persistCount' = 0

InitOf(scenarios) ==
    \E sc \in scenarios :
        /\ profile = sc.profile
        /\ faults = sc.faults
        /\ today = 1
        /\ run = 1
        /\ metadataFile = InitialFile(sc.store, sc.profile, sc.ds)
        /\ files = [p \in Paths |-> NoFile]
        /\ temps = {}
        /\ dirsMade = {}
        /\ prev = NoPrev
        /\ Started(sc.prog, sc.ds, InitialFile(sc.store, sc.profile, sc.ds))

Running == mainpc \notin {"done", "fatal"}

\* log.Fatalf: the message, then os.Exit(1); every goroutine stops where it is.
Fatal ==
    /\ mainpc' = "fatal"
    /\ exitCode' = 1

(***************************************************************************)
(* The worker-pool program: main (part_001:51-96)                          *)
(***************************************************************************)
\* for i := 0; i < maxParallel; i++ { wg.Add(1); go func() {...}() }
StartWorker ==
    /\ prog = "pool" /\ mainpc = "spawn"
    /\ spawned < maxParallel
    /\ wg' = wg + 1
    /\ pc' = [pc EXCEPT ![spawned + 1] = "recv"]
    /\ spawned' = spawned + 1
    /\ mainpc' = IF spawned + 1 = maxParallel THEN "dispatch" ELSE "spawn"
    /\ UNCHANGED <<envVars, diskVars, sharedVars, dirsLeft, curDir, nextUrl, exitCode,
                   tasks, closed, mu, task, meta, resp, tmpFile, newMeta, err, seq, histVars>>

\* the inner loop has sent every url of the current dir
DirDone == IF curDir = "" THEN TRUE ELSE nextUrl > Len(dataSources[curDir])

\* (mutant) a dispatch loop that does not look at what os.MkdirAll returns
MkdirAllUnchecked ==
    /\ prog = "pool" /\ mainpc = "dispatch"
    /\ DirDone
    /\ \E d \in dirsLeft, ok \in Results(faults, "mkdir") :
          /\ dirsMade' = IF ok THEN dirsMade \cup {d} ELSE dirsMade
          /\ dirsLeft' = dirsLeft \ {d}
          /\ curDir' = d
          /\ nextUrl' = 1
          /\ UNCHANGED <<mainpc, exitCode>>
    /\ UNCHANGED <<envVars, metadataFile, files, temps, sharedVars, spawned,
                   chanVars, mu, workerVars, seq, histVars>>

\* for dir, urls := range dataSources { if err := os.MkdirAll(dir, 0755); err != nil { log.Fatalf } ...
\* (a Go map is ranged over in any order)
MkdirAll ==
    /\ prog = "pool" /\ mainpc = "dispatch"
    /\ DirDone
    /\ \E d \in dirsLeft, ok \in Results(faults, "mkdir") :
          IF ok
          THEN /\ dirsMade' = dirsMade \cup {d}
               /\ dirsLeft' = dirsLeft \ {d}
               /\ curDir' = d
               /\ nextUrl' = 1
               /\ UNCHANGED <<mainpc, exitCode>>
          ELSE /\ Fatal
               /\ UNCHANGED <<dirsMade, dirsLeft, curDir, nextUrl>>
    /\ UNCHANGED <<envVars, metadataFile, files, temps, sharedVars, spawned,
                   chanVars, mu, workerVars, seq, histVars>>

\* (mutant) a send that never blocks
EnqueueUnbounded ==
    /\ prog = "pool" /\ mainpc = "dispatch"
    /\ ~DirDone
    /\ tasks' = Append(tasks, FetchTask(curDir, dataSources[curDir][nextUrl], nextUrl))
    /\ nextUrl' = nextUrl + 1
    /\ UNCHANGED <<envVars, diskVars, sharedVars, mainpc, spawned, dirsLeft, curDir, exitCode,
                   closed, wg, mu, workerVars, seq, histVars>>

\* tasks <- fetchTask{dir: dir, url: url}   (blocks while the buffer is full)
Enqueue ==
    /\ prog = "pool" /\ mainpc = "dispatch"
    /\ ~DirDone
    /\ Len(tasks) < maxParallel
    /\ tasks' = Append(tasks, FetchTask(curDir, dataSources[curDir][nextUrl], nextUrl))
    /\ nextUrl' = nextUrl + 1
    /\ UNCHANGED <<envVars, diskVars, sharedVars, mainpc, spawned, dirsLeft, curDir, exitCode,
                   closed, wg, mu, workerVars, seq, histVars>>

\* (mutant) main goes on to wg.Wait() without closing the channel
CloseForgotten ==
    /\ prog = "pool" /\ mainpc = "dispatch"
    /\ DirDone /\ dirsLeft = {}
    /\ mainpc' = "wait"
    /\ UNCHANGED <<envVars, diskVars, sharedVars, spawned, dirsLeft, curDir, nextUrl, exitCode,
                   chanVars, mu, workerVars, seq, histVars>>

\* close(tasks)
Close ==
    /\ prog = "pool" /\ mainpc = "dispatch"
    /\ DirDone /\ dirsLeft = {}
    /\ closed' = TRUE
    /\ mainpc' = "wait"
    /\ UNCHANGED <<envVars, diskVars, sharedVars, spawned, dirsLeft, curDir, nextUrl, exitCode,
                   tasks, wg, mu, workerVars, seq, histVars>>

\* (mutant) a Wait that does not wait
WaitReturnsAtOnce == TRUE

\* wg.Wait() returns when the counter is zero
WaitReturns == wg = 0

Wait ==
    /\ prog = "pool" /\ mainpc = "wait"
    /\ WaitReturns
    /\ mainpc' = "write"
    /\ UNCHANGED <<envVars, diskVars, sharedVars, spawned, dirsLeft, curDir, nextUrl, exitCode,
                   chanVars, mu, workerVars, seq, histVars>>

\* func writeMetadata(m Metadata): encode into .metadata.yaml.tmp, rename it
\* onto .metadata.yaml; log.Fatalf when create, encode or rename fails.
writeMetadata ==
    /\ mainpc = "write"
    /\ \E ok \in Results(faults, "persist") :
          IF ok
          THEN /\ metadataFile' = MetadataFileOf(metadata)
               /\ persistCount' = persistCount + 1
               /\ mainpc' = "exit"
               /\ UNCHANGED exitCode
          ELSE /\ Fatal
               /\ UNCHANGED <<metadataFile, persistCount>>
    /\ UNCHANGED <<envVars, files, temps, dirsMade, sharedVars, spawned, dirsLeft, curDir, nextUrl,
                   chanVars, mu, workerVars, seq, outcome, reqs, recvs, respLog, loaded, prev>>

\* (mutant) an exit that ignores the flag
ExitStatusZero(flag) == 0

\* if hadError { os.Exit(1) }  and the return from main
ExitStatus(flag) == IF flag THEN 1 ELSE 0

Exit ==
    /\ mainpc = "exit"
    /\ exitCode' = ExitStatus(hadError)
    /\ mainpc' = "done"
    /\ UNCHANGED <<envVars, diskVars, sharedVars, spawned, dirsLeft, curDir, nextUrl,
                   chanVars, mu, workerVars, seq, histVars>>

(***************************************************************************)
(* The worker-pool program: the goroutines (part_001:66-76) and fetchOne   *)
(* (part_001:98-166)                                                       *)
(***************************************************************************)
Alive(w) == prog = "pool" /\ Running /\ w \in Workers

\* (mutant) a receive that leaves the task in the buffer
DequeueNothing(q) == q

\* what a receive takes off the channel buffer
Dequeue(q) == Tail(q)

\* for task := range tasks  -- a task is there
Recv(w) ==
    /\ Alive(w) /\ pc[w] = "recv"
    /\ tasks # <<>>
    /\ task' = [task EXCEPT ![w] = Head(tasks)]
    /\ tasks' = Dequeue(tasks)
    /\ recvs' = [recvs EXCEPT ![Head(tasks).id] = @ + 1]
    /\ pc' = [pc EXCEPT ![w] = "lockread"]
    /\ UNCHANGED <<envVars, diskVars, sharedVars, mainVars, closed, wg, mu,
                   meta, resp, tmpFile, newMeta, err, seq,
                   outcome, reqs, respLog, persistCount, loaded, prev>>

\* for task := range tasks  -- closed and drained: the loop ends, the deferred
\* wg.Done() runs
WorkerExit(w) ==
    /\ Alive(w) /\ pc[w] = "recv"
    /\ tasks = <<>> /\ closed
    /\ wg' = wg - 1
    /\ pc' = [pc EXCEPT ![w] = "exited"]
    /\ UNCHANGED <<envVars, diskVars, sharedVars, mainVars, tasks, closed, mu,
                   task, meta, resp, tmpFile, newMeta, err, seq, histVars>>

\* (mutant) a Lock that does not wait for the mutex to be free
LockBarging(w) ==
    /\ Alive(w) /\ pc[w] \in {"lockread", "lockwrite", "lockerr"}
    /\ mu' = w
    /\ pc' = [pc EXCEPT ![w] = CASE pc[w] = "lockread" -> "read"
                                 [] pc[w] = "lockwrite" -> "write"
                                 [] OTHER -> "seterr"]
    /\ UNCHANGED <<envVars, diskVars, sharedVars, mainVars, chanVars,
                   task, meta, resp, tmpFile, newMeta, err, seq, histVars>>

\* mu.Lock() at any of its three places
Lock(w) ==
    /\ Alive(w) /\ pc[w] \in {"lockread", "lockwrite", "lockerr"}
    /\ mu = 0
    /\ mu' = w
    /\ pc' = [pc EXCEPT ![w] = CASE pc[w] = "lockread" -> "read"
                                 [] pc[w] = "lockwrite" -> "write"
                                 [] OTHER -> "seterr"]
    /\ UNCHANGED <<envVars, diskVars, sharedVars, mainVars, chanVars,
                   task, meta, resp, tmpFile, newMeta, err, seq, histVars>>

\* meta := metadata[url]; mu.Unlock()
ReadMeta(w) ==
    /\ Alive(w) /\ pc[w] = "read"
    /\ meta' = [meta EXCEPT ![w] = MapGet(metadata, task[w].url)]
    /\ mu' = 0
    /\ pc' = [pc EXCEPT ![w] = "request"]
    /\ UNCHANGED <<envVars, diskVars, sharedVars, mainVars, chanVars,
                   task, resp, tmpFile, newMeta, err, seq, histVars>>

\* http.NewRequest("GET", url, nil) fails when the URL does not parse
NewRequestFails(u) == u.scheme = ""

\* (mutant) a worker loop that drops the error
AfterFetchOneSilent(failed) == "recv"

\* (mutant) a worker loop that reports an error whatever fetchOne returns
AfterFetchOneAlways(failed) == "lockerr"

\* fetchOne returns before it has made a temp file: back in the worker loop,
\* `if err := fetchOne(...); err != nil` decides where the goroutine goes.
AfterFetchOne(failed) == IF failed THEN "lockerr" ELSE "recv"
OutcomeOf(failed, r) ==
    IF failed THEN "Failed" ELSE IF r.status = 304 THEN "Unchanged" ELSE "Fetched"

\* req, err := http.NewRequest(...); the two conditional headers;
\* resp, err := http.DefaultClient.Do(req); the status checks
Request(w) ==
    /\ Alive(w) /\ pc[w] = "request"
    /\ LET t == task[w] IN
       IF NewRequestFails(t.url)
       THEN /\ outcome' = [outcome EXCEPT ![t.id] = "Failed"]
            /\ pc' = [pc EXCEPT ![w] = AfterFetchOne(TRUE)]
            /\ meta' = [meta EXCEPT ![w] = ZeroEntry]
            /\ UNCHANGED <<resp, reqs, respLog, task>>
       ELSE \E r \in DoResults(faults, RemoteOf(profile, t.url), meta[w].LastModified, meta[w].ETag) :
            /\ reqs' = [reqs EXCEPT ![t.id] = @ + 1]
            /\ respLog' = [respLog EXCEPT ![t.id] = r]
            /\ IF r.status = 200
               THEN /\ pc' = [pc EXCEPT ![w] = "createtemp"]
                    /\ resp' = [resp EXCEPT ![w] = r]
                    /\ UNCHANGED <<outcome, meta, task>>
               ELSE /\ pc' = [pc EXCEPT ![w] = AfterFetchOne(r.status # 304)]
                    /\ outcome' = [outcome EXCEPT ![t.id] = OutcomeOf(r.status # 304, r)]
                    /\ meta' = [meta EXCEPT ![w] = ZeroEntry]
                    /\ task' = [task EXCEPT ![w] = IF r.status = 304 THEN NoTask ELSE @]
                    /\ UNCHANGED resp
    /\ UNCHANGED <<envVars, diskVars, sharedVars, mainVars, chanVars, mu,
                   tmpFile, newMeta, err, seq, recvs, persistCount, loaded, prev>>

\* tmpFile, err := os.CreateTemp(dir, "tmp"); defer os.Remove(tmpFile.Name())
CreateTemp(w) ==
    /\ Alive(w) /\ pc[w] = "createtemp"
    /\ \E ok \in Results(faults, "createtemp") :
          IF ok
          THEN /\ temps' = temps \cup {TmpFile(run, task[w], "")}
               /\ tmpFile' = [tmpFile EXCEPT ![w] = TmpFile(run, task[w], "").name]
               /\ pc' = [pc EXCEPT ![w] = "copy"]
               /\ UNCHANGED <<outcome, meta, resp>>
          ELSE /\ outcome' = [outcome EXCEPT ![task[w].id] = "Failed"]
               /\ pc' = [pc EXCEPT ![w] = AfterFetchOne(TRUE)]
               /\ meta' = [meta EXCEPT ![w] = ZeroEntry]
               /\ resp' = [resp EXCEPT ![w] = NoResp]
               /\ UNCHANGED <<temps, tmpFile>>
    /\ UNCHANGED <<envVars, metadataFile, files, dirsMade, sharedVars, mainVars, chanVars, mu,
                   task, newMeta, err, seq, reqs, recvs, respLog, persistCount, loaded, prev>>

\* (mutant) a Remove that removes nothing
RemoveNothing(ts, name) == ts

\* os.Remove(name)
Remove(ts, name) == {t \in ts : t.name # name}

\* the temp file with the given name, written to
WriteTmp(ts, name, c) == {IF t.name = name THEN [t EXCEPT !.content = c] ELSE t : t \in ts}

\* _, err = io.Copy(tmpFile, resp.Body); tmpFile.Close(); if err != nil { return err }
Copy(w) ==
    /\ Alive(w) /\ pc[w] = "copy"
    /\ \E ok \in Results(faults, "copy") :
          /\ temps' = WriteTmp(temps, tmpFile[w], IF ok THEN resp[w].body ELSE Partial(resp[w].body))
          /\ err' = [err EXCEPT ![w] = ~ok]
          /\ pc' = [pc EXCEPT ![w] = IF ok THEN "rename" ELSE "return"]
    /\ UNCHANGED <<envVars, metadataFile, files, dirsMade, sharedVars, mainVars, chanVars, mu,
                   task, meta, resp, tmpFile, newMeta, seq, histVars>>

\* os.Rename(old, new): the file named old, if there is one, replaces new
\* and is no longer under its old name
RenamedAway(ts, name) == {t \in ts : t.name # name}
RenameOnto(fs, ts, name, path) ==
    IF \E t \in ts : t.name = name
    THEN [fs EXCEPT ![path] = File((CHOOSE t \in ts : t.name = name).content, "now")]
    ELSE fs

\* (mutant) a fetchOne that goes on when os.Rename has failed
RenameUnchecked(w) ==
    /\ Alive(w) /\ pc[w] = "rename"
    /\ \E ok \in Results(faults, "rename") :
          IF ok /\ \E t \in temps : t.name = tmpFile[w]
          THEN /\ files' = RenameOnto(files, temps, tmpFile[w], OutPath(task[w].dir, task[w].url, today))
               /\ temps' = RenamedAway(temps, tmpFile[w])
          ELSE UNCHANGED <<files, temps>>
    /\ pc' = [pc EXCEPT ![w] = "newmeta"]
    /\ UNCHANGED <<envVars, metadataFile, dirsMade, sharedVars, mainVars, chanVars, mu,
                   task, meta, resp, tmpFile, newMeta, err, seq, histVars>>

\* if err := os.Rename(tmpFile.Name(), outPath); err != nil { return err }
Rename(w) ==
    /\ Alive(w) /\ pc[w] = "rename"
    /\ \E ok \in Results(faults, "rename") :
          IF ok /\ \E t \in temps : t.name = tmpFile[w]
          THEN /\ files' = RenameOnto(files, temps, tmpFile[w], OutPath(task[w].dir, task[w].url, today))
               /\ temps' = RenamedAway(temps, tmpFile[w])
               /\ pc' = [pc EXCEPT ![w] = "newmeta"]
               /\ UNCHANGED err
          ELSE /\ err' = [err EXCEPT ![w] = TRUE]
               /\ pc' = [pc EXCEPT ![w] = "return"]
               /\ UNCHANGED <<files, temps>>
    /\ UNCHANGED <<envVars, metadataFile, dirsMade, sharedVars, mainVars, chanVars, mu,
                   task, meta, resp, tmpFile, newMeta, seq, histVars>>

\* newMeta := MetadataEntry{}; the Last-Modified header is kept when
\* http.ParseTime accepts it; the ETag header is kept when it is not empty.
NewMetadata(r) ==
    MetadataEntry(IF r.lm # "" /\ ParseTimeOk(r.lm) THEN r.lm ELSE "",
                  IF r.etag # "" THEN r.etag ELSE "")

\* os.Chtimes(outPath, time.Now(), t): the result is not looked at
Chtimes(fs, path, t, ok) ==
    IF ok /\ fs[path].exists THEN [fs EXCEPT ![path].mtime = t] ELSE fs

\* (mutant) a fetchOne that returns the error of os.Chtimes
BuildNewMetaChecked(w) ==
    /\ Alive(w) /\ pc[w] = "newmeta"
    /\ IF resp[w].lm # "" /\ ParseTimeOk(resp[w].lm)
       THEN \E ok \in Results(faults, "chtimes") :
               /\ files' = Chtimes(files, OutPath(task[w].dir, task[w].url, today), resp[w].lm, ok)
               /\ newMeta' = [newMeta EXCEPT ![w] = IF ok THEN NewMetadata(resp[w]) ELSE @]
               /\ err' = [err EXCEPT ![w] = ~ok]
               /\ pc' = [pc EXCEPT ![w] = IF ok THEN "lockwrite" ELSE "return"]
       ELSE /\ newMeta' = [newMeta EXCEPT ![w] = NewMetadata(resp[w])]
            /\ pc' = [pc EXCEPT ![w] = "lockwrite"]
            /\ UNCHANGED <<files, err>>
    /\ UNCHANGED <<envVars, metadataFile, temps, dirsMade, sharedVars, mainVars, chanVars, mu,
                   task, meta, resp, tmpFile, seq, histVars>>

\* the "Update metadata" block up to mu.Lock()
BuildNewMeta(w) ==
    /\ Alive(w) /\ pc[w] = "newmeta"
    /\ newMeta' = [newMeta EXCEPT ![w] = NewMetadata(resp[w])]
    /\ IF resp[w].lm # "" /\ ParseTimeOk(resp[w].lm)
       THEN \E ok \in Results(faults, "chtimes") :
               files' = Chtimes(files, OutPath(task[w].dir, task[w].url, today), resp[w].lm, ok)
       ELSE UNCHANGED files
    /\ pc' = [pc EXCEPT ![w] = "lockwrite"]
    /\ UNCHANGED <<envVars, metadataFile, temps, dirsMade, sharedVars, mainVars, chanVars, mu,
                   task, meta, resp, tmpFile, err, seq, histVars>>

\* metadata[url] = newMeta; mu.Unlock(); return nil
WriteMeta(w) ==
    /\ Alive(w) /\ pc[w] = "write"
    /\ metadata' = MapSet(metadata, task[w].url, newMeta[w])
    /\ mu' = 0
    /\ pc' = [pc EXCEPT ![w] = "return"]
    /\ UNCHANGED <<envVars, diskVars, hadError, mainVars, chanVars,
                   task, meta, resp, tmpFile, newMeta, err, seq, histVars>>

\* fetchOne returns after it has made a temp file: the deferred
\* os.Remove(tmpFile.Name()) runs (and fails silently when the name is gone);
\* its locals go out of scope
Return(w) ==
    /\ Alive(w) /\ pc[w] = "return"
    /\ temps' = Remove(temps, tmpFile[w])
    /\ outcome' = [outcome EXCEPT ![task[w].id] = OutcomeOf(err[w], resp[w])]
    /\ pc' = [pc EXCEPT ![w] = AfterFetchOne(err[w])]
    /\ task' = [task EXCEPT ![w] = IF err[w] THEN @ ELSE NoTask]
    /\ meta' = [meta EXCEPT ![w] = ZeroEntry]
    /\ resp' = [resp EXCEPT ![w] = NoResp]
    /\ tmpFile' = [tmpFile EXCEPT ![w] = NoTmp]
    /\ newMeta' = [newMeta EXCEPT ![w] = ZeroEntry]
    /\ err' = [err EXCEPT ![w] = FALSE]
    /\ UNCHANGED <<envVars, metadataFile, files, dirsMade, sharedVars, mainVars, chanVars, mu,
                   seq, reqs, recvs, respLog, persistCount, loaded, prev>>

\* hadError = true; mu.Unlock()
SetError(w) ==
    /\ Alive(w) /\ pc[w] = "seterr"
    /\ hadError' = TRUE
    /\ mu' = 0
    /\ pc' = [pc EXCEPT ![w] = "recv"]
    /\ task' = [task EXCEPT ![w] = NoTask]
    /\ UNCHANGED <<envVars, diskVars, metadata, mainVars, chanVars,
                   meta, resp, tmpFile, newMeta, err, seq, histVars>>

(***************************************************************************)
(* The sequential program: main (main.go:44-149)                           *)
(***************************************************************************)
\* the `continue` of the inner loop
Continue ==
    /\ mainpc' = "range"
    /\ nextUrl' = nextUrl + 1
    /\ seq' = NoSeq

\* for dir, urls := range dataSources { if err := os.MkdirAll(dir, 0755); err != nil { log.Fatalf } ...
SeqMkdirAll ==
    /\ prog = "seq" /\ mainpc = "range"
    /\ DirDone
    /\ \E d \in dirsLeft, ok \in Results(faults, "mkdir") :
          IF ok
          THEN /\ dirsMade' = dirsMade \cup {d}
               /\ dirsLeft' = dirsLeft \ {d}
               /\ curDir' = d
               /\ nextUrl' = 1
               /\ UNCHANGED <<mainpc, exitCode>>
          ELSE /\ Fatal
               /\ UNCHANGED <<dirsMade, dirsLeft, curDir, nextUrl>>
    /\ UNCHANGED <<envVars, metadataFile, files, temps, sharedVars, spawned,
                   chanVars, mu, workerVars, seq, histVars>>

\* meta := metadata[url]; http.NewRequest; the two conditional headers; the
\* first http.DefaultClient.Do(req); resp.Body.Close(); the status checks
SeqRequest ==
    /\ prog = "seq" /\ mainpc = "range"
    /\ ~DirDone
    /\ LET t == FetchTask(curDir, dataSources[curDir][nextUrl], nextUrl)
           m == MapGet(metadata, t.url)
       IN IF NewRequestFails(t.url)
          THEN /\ hadError' = TRUE
               /\ outcome' = [outcome EXCEPT ![t.id] = "Failed"]
               /\ Continue
               /\ UNCHANGED <<reqs, respLog>>
          ELSE \E r \in DoResults(faults, RemoteOf(profile, t.url), m.LastModified, m.ETag) :
               /\ reqs' = [reqs EXCEPT ![t.id] = @ + 1]
               /\ respLog' = [respLog EXCEPT ![t.id] = r]
               /\ IF r.status = 200
                  THEN /\ seq' = [task |-> t, meta |-> m, resp |-> r, tmpFile |-> NoTmp]
                       /\ mainpc' = "s_retry"
                       /\ UNCHANGED <<hadError, outcome, nextUrl>>
                  ELSE /\ hadError' = (hadError \/ r.status # 304)
                       /\ outcome' = [outcome EXCEPT ![t.id] = OutcomeOf(r.status # 304, r)]
                       /\ Continue
    /\ UNCHANGED <<envVars, diskVars, metadata, spawned, dirsLeft, curDir, exitCode,
                   chanVars, mu, workerVars, recvs, persistCount, loaded, prev>>

\* resp, err = http.DefaultClient.Do(req) a second time, "Retry request
\* failed" on error; the status of this response is not looked at
SeqRetry ==
    /\ prog = "seq" /\ mainpc = "s_retry"
    /\ \E r \in DoResults(faults, RemoteOf(profile, seq.task.url), seq.meta.LastModified, seq.meta.ETag) :
          /\ reqs' = [reqs EXCEPT ![seq.task.id] = @ + 1]
          /\ IF r.status = 0
             THEN /\ hadError' = TRUE
                  /\ outcome' = [outcome EXCEPT ![seq.task.id] = "Failed"]
                  /\ Continue
                  /\ UNCHANGED respLog
             ELSE /\ seq' = [seq EXCEPT !.resp = r]
                  /\ respLog' = [respLog EXCEPT ![seq.task.id] = r]
                  /\ mainpc' = "s_tempfile"
                  /\ UNCHANGED <<hadError, outcome, nextUrl>>
    /\ UNCHANGED <<envVars, diskVars, metadata, spawned, dirsLeft, curDir, exitCode,
                   chanVars, mu, workerVars, recvs, persistCount, loaded, prev>>

\* tmpFile, err := ioutil.TempFile(dir, "tmp")
SeqTempFile ==
    /\ prog = "seq" /\ mainpc = "s_tempfile"
    /\ \E ok \in Results(faults, "createtemp") :
          IF ok
          THEN /\ temps' = temps \cup {TmpFile(run, seq.task, "")}
               /\ seq' = [seq EXCEPT !.tmpFile = TmpFile(run, seq.task, "").name]
               /\ mainpc' = "s_copy"
               /\ UNCHANGED <<hadError, outcome, nextUrl>>
          ELSE /\ hadError' = TRUE
               /\ outcome' = [outcome EXCEPT ![seq.task.id] = "Failed"]
               /\ Continue
               /\ UNCHANGED temps
    /\ UNCHANGED <<envVars, metadataFile, files, dirsMade, metadata, spawned, dirsLeft, curDir, exitCode,
                   chanVars, mu, workerVars, reqs, recvs, respLog, persistCount, loaded, prev>>

\* _, err = io.Copy(tmpFile, resp.Body); tmpFile.Close(); on error
\* os.Remove(tmpFile.Name()), hadError = true, continue
SeqCopy ==
    /\ prog = "seq" /\ mainpc = "s_copy"
    /\ \E ok \in Results(faults, "copy") :
          IF ok
          THEN /\ temps' = WriteTmp(temps, seq.tmpFile, seq.resp.body)
               /\ mainpc' = "s_rename"
               /\ UNCHANGED <<hadError, outcome, nextUrl, seq>>
          ELSE /\ temps' = Remove(WriteTmp(temps, seq.tmpFile, Partial(seq.resp.body)), seq.tmpFile)
               /\ hadError' = TRUE
               /\ outcome' = [outcome EXCEPT ![seq.task.id] = "Failed"]
               /\ Continue
    /\ UNCHANGED <<envVars, metadataFile, files, dirsMade, metadata, spawned, dirsLeft, curDir, exitCode,
                   chanVars, mu, workerVars, reqs, recvs, respLog, persistCount, loaded, prev>>

\* if err := os.Rename(tmpFile.Name(), outPath); err != nil { hadError = true; continue }
SeqRename ==
    /\ prog = "seq" /\ mainpc = "s_rename"
    /\ \E ok \in Results(faults, "rename") :
          IF ok
          THEN /\ files' = RenameOnto(files, temps, seq.tmpFile,
                                      OutPath(seq.task.dir, seq.task.url, today))
               /\ temps' = RenamedAway(temps, seq.tmpFile)
               /\ mainpc' = "s_meta"
               /\ UNCHANGED <<hadError, outcome, nextUrl, seq>>
          ELSE /\ hadError' = TRUE
               /\ outcome' = [outcome EXCEPT ![seq.task.id] = "Failed"]
               /\ Continue
               /\ UNCHANGED <<files, temps>>
    /\ UNCHANGED <<envVars, metadataFile, dirsMade, metadata, spawned, dirsLeft, curDir, exitCode,
                   chanVars, mu, workerVars, reqs, recvs, respLog, persistCount, loaded, prev>>

\* main.go keeps the entry it read and overwrites a field only when the
\* header is there (and, for Last-Modified, parses)
MergeMetadata(m, r) ==
    MetadataEntry(IF r.lm # "" /\ ParseTimeOk(r.lm) THEN r.lm ELSE m.LastModified,
                  IF r.etag # "" THEN r.etag ELSE m.ETag)

\* the "Preserve last-modified time" block and metadata[url] = meta
SeqUpdate ==
    /\ prog = "seq" /\ mainpc = "s_meta"
    /\ IF seq.resp.lm # "" /\ ParseTimeOk(seq.resp.lm)
       THEN \E ok \in Results(faults, "chtimes") :
               files' = Chtimes(files, OutPath(seq.task.dir, seq.task.url, today), seq.resp.lm, ok)
       ELSE UNCHANGED files
    /\ metadata' = MapSet(metadata, seq.task.url, MergeMetadata(seq.meta, seq.resp))
    /\ outcome' = [outcome EXCEPT ![seq.task.id] = "Fetched"]
    /\ Continue
    /\ UNCHANGED <<envVars, metadataFile, temps, dirsMade, hadError, spawned, dirsLeft, curDir, exitCode,
                   chanVars, mu, workerVars, reqs, recvs, respLog, persistCount, loaded, prev>>

\* the outer loop ends
SeqLoopEnd ==
    /\ prog = "seq" /\ mainpc = "range"
    /\ DirDone /\ dirsLeft = {}
    /\ mainpc' = "write"
    /\ UNCHANGED <<envVars, diskVars, sharedVars, spawned, dirsLeft, curDir, nextUrl, exitCode,
                   chanVars, mu, workerVars, seq, histVars>>

SeqMain ==
    \/ SeqMkdirAll \/ SeqRequest \/ SeqRetry \/ SeqTempFile \/ SeqCopy
    \/ SeqRename \/ SeqUpdate \/ SeqLoopEnd

(***************************************************************************)
(* The next run: the scheduler starts the program again on the same disk   *)
(***************************************************************************)
Restart ==
    /\ mainpc = "done"
    /\ run < MaxRuns
    /\ run' = run + 1
    /\ \E d \in {today, today + 1} \cap Days : today' = d
    /\ prev' = [outcome |-> outcome, metadataFile |-> metadataFile, files |-> files]
    /\ UNCHANGED <<prog, dataSources, profile, faults, diskVars>>
    /\ Start(prog, dataSources, metadataFile)

(***************************************************************************)
(* Specifications                                                          *)
(***************************************************************************)
Worker(w) ==
    \/ Recv(w) \/ WorkerExit(w) \/ Lock(w) \/ ReadMeta(w) \/ Request(w)
    \/ CreateTemp(w) \/ Copy(w) \/ Rename(w) \/ BuildNewMeta(w) \/ WriteMeta(w)
    \/ Return(w) \/ SetError(w)

PoolMain == StartWorker \/ MkdirAll \/ Enqueue \/ Close \/ Wait

\* origin and metadata file of the scenarios that explore every failure
Mixes ==
    {<<"both", "nofile">>, <<"both", "stale">>, <<"both", "mixed">>,
     <<"none", "stale">>, <<"etagonly", "stale">>, <<"badlm", "stale">>,
     <<"badlmetag", "nofile">>, <<"lmonly", "fresh">>}
Progs == {"pool", "seq"}

Scenarios ==
    {Scenario(p, CatPair, m[1], m[2], AllFaults) : p \in Progs, m \in Mixes}
    \cup {Scenario(p, CatEmpty, "both", "nofile", {}) : p \in Progs}
    \cup {Scenario(p, CatBad, "both", "nofile", {"http"}) : p \in Progs}
    \cup {Scenario(p, CatMain, "both", "nofile", {}) : p \in Progs}
    \cup {Scenario(p, CatMain, "both", "mixed", {"http", "persist"}) : p \in Progs}
    \cup {Scenario(p, CatDup, "both", "nofile", {"http"}) : p \in Progs}
    \cup {Scenario(p, CatClash, "both", "nofile", {}) : p \in Progs}

Init == InitOf(Scenarios)
Next == PoolMain \/ SeqMain \/ writeMetadata \/ Exit \/ \E w \in Workers : Worker(w)
Spec == Init /\ [][Next]_vars

\* Two runs in a row.
RerunScenarios ==
    {Scenario(p, CatOne, m[1], m[2], AllFaults \ {"mkdir", "persist"}) : p \in Progs, m \in Mixes}
    \cup {Scenario(p, CatPair, "both", "nofile", {"http"}) : p \in Progs}
    \cup {Scenario(p, CatDup, "both", "nofile", {}) : p \in Progs}
RerunInit == InitOf(RerunScenarios)
RerunNext == Next \/ Restart
RerunSpec == RerunInit /\ [][RerunNext]_vars

\* Fair scheduling: the Go scheduler keeps running main and every goroutine
\* that can take a step; every call into the environment returns.
FairScenarios ==
    {Scenario("pool", CatBig, "both", "mixed", {}),
     Scenario("pool", CatEmpty, "both", "nofile", AllFaults),
     Scenario("pool", CatPair, "both", "stale", AllFaults),
     Scenario("seq", CatPair, "both", "stale", AllFaults)}
FairInit == InitOf(FairScenarios)
Fairness ==
    /\ WF_vars(PoolMain \/ SeqMain \/ writeMetadata \/ Exit)
    /\ \A w \in Workers : WF_vars(Worker(w))
FairSpec == FairInit /\ [][Next]_vars /\ Fairness

(***************************************************************************)
(* Properties                                                              *)
(***************************************************************************)
Tasks == TaskIds(dataSources)
UrlOf(t) == dataSources[t[1]][t[2]]
PathOf(t) == OutPath(t[1], UrlOf(t), today)
\* the catalog lists the task's URL only once
Sole(t) == \A t2 \in Tasks : UrlOf(t2) = UrlOf(t) => t2 = t
\* no other task of the catalog has the task's destination path
SolePath(t) == \A t2 \in Tasks : PathOf(t2) = PathOf(t) => t2 = t
Ended(t) == outcome[t] # "none"
Good(t) == outcome[t] \in {"Fetched", "Unchanged"}
PastBarrier == mainpc \in {"write", "exit", "done"}
AllExited == \A w \in Workers : pc[w] = "exited"
\* the entry a response's validators make: its ETag header, and its
\* Last-Modified header when that is an HTTP date
EntryOf(r) == MetadataEntry(IF r.lm \in ParseableTimes THEN r.lm ELSE "", r.etag)
\* the entry made of a response's two header values as they are
HeadersOf(r) == MetadataEntry(r.lm, r.etag)
Persisted == readMetadata(metadataFile)
FullBodies == {BodyOf(u) : u \in AllUrls} \cup {ErrorPage.body}

(* C1: in the worker-pool program a run that does not abort fatally replaces
   the metadata file exactly once, and from the moment main is about to
   persist (and still when it reads hadError for the exit status) every
   worker has exited, the channel is empty and nobody holds the mutex. *)
C1_PersistedOnceAfterWorkers ==
    prog = "pool" =>
        /\ persistCount <= 1
        /\ (mainpc = "done" => persistCount = 1)
        /\ (persistCount = 1 => mainpc \in {"exit", "done"})
        /\ (PastBarrier => AllExited /\ tasks = <<>> /\ mu = 0 /\ closed)

C1_Witness ==
    /\ prog = "pool" /\ mainpc = "exit" /\ persistCount = 1
    /\ \E t \in Tasks : outcome[t] = "Fetched"
    /\ \E t \in Tasks : outcome[t] = "Failed"

(* C2: in the worker-pool program, when the catalog's URLs are pairwise
   different, the store was loaded empty and every task ended Fetched, then
   once the workers are done the map holds exactly one key per task, and each
   URL's entry is the one made of the validators of the response to its own
   task (which carries that URL's ETag). *)
C2_NoLostUpdate ==
    (/\ prog = "pool" /\ PastBarrier
     /\ \A t \in Tasks : Sole(t) /\ outcome[t] = "Fetched"
     /\ loaded = EmptyMetadata)
    => /\ Cardinality({u \in AllUrls : metadata[u].present}) = Cardinality(Tasks)
       /\ \A t \in Tasks :
            /\ metadata[UrlOf(t)] = Key(EntryOf(respLog[t]))
            /\ metadata[UrlOf(t)].entry.ETag = ETagOf(UrlOf(t))
       /\ (mainpc = "done" => Persisted = metadata)

C2_Witness ==
    /\ prog = "pool" /\ mainpc = "done"
    /\ Cardinality(Tasks) > maxParallel
    /\ \A t \in Tasks : Sole(t) /\ outcome[t] = "Fetched"
    /\ loaded = EmptyMetadata
    /\ Cardinality({u \in AllUrls : Persisted[u].present}) = Cardinality(Tasks)

(* C3: in the worker-pool program no task is received twice, no two workers
   hold the same task, no task is twice in the channel, and when main is past
   wg.Wait() every task of the catalog has been received exactly once and has
   ended. *)
C3_ConsumedExactlyOnce ==
    prog = "pool" =>
        /\ \A t \in Tasks : recvs[t] <= 1
        /\ \A i, j \in 1..Len(tasks) : tasks[i].id = tasks[j].id => i = j
        /\ \A w1, w2 \in Workers :
              (task[w1] # NoTask /\ task[w1].id = task[w2].id) => w1 = w2
        /\ \A w \in Workers, i \in 1..Len(tasks) : task[w].id # tasks[i].id
        /\ (PastBarrier => \A t \in Tasks : recvs[t] = 1 /\ Ended(t))

C3_Witness ==
    /\ prog = "pool" /\ mainpc = "write"
    /\ Cardinality(Tasks) > maxParallel
    /\ \A t \in Tasks : recvs[t] = 1 /\ Ended(t)

(* C4 as stated: whenever the process has exited, its status is 0 if and only
   if every task ended Fetched or Unchanged. *)
C4_ExitZeroIffAllGood ==
    exitCode # -1 => ((exitCode = 0) <=> \A t \in Tasks : Good(t))

(* C4 as amended: a run that reaches its normal exit has status 0 if and only
   if every task ended Fetched or Unchanged and non-zero if and only if
   some task Failed; a fatal abort has status 1 whatever the tasks did. *)
C4_ExitStatus ==
    /\ (mainpc = "done" =>
            /\ \A t \in Tasks : Ended(t)
            /\ (exitCode = 0) <=> (\A t \in Tasks : Good(t))
            /\ (exitCode = 1) <=> (\E t \in Tasks : outcome[t] = "Failed"))
    /\ (mainpc = "fatal" => exitCode = 1)
    /\ (Running => exitCode = -1)

C4_Witness ==
    /\ mainpc = "done" /\ exitCode = 1
    /\ \E t \in Tasks : outcome[t] = "Failed"
    /\ \E t \in Tasks : outcome[t] = "Fetched"

(* C5 as stated: when a run of the worker-pool program has reached its normal
   exit, the persisted store holds for every Fetched task the entry of its
   response, for every Unchanged task the entry as loaded, the file was
   written, and the status is non-zero when some task Failed. *)
C5_FailureIsolated ==
    (prog = "pool" /\ mainpc = "done") =>
        /\ persistCount = 1
        /\ \A t \in Tasks :
              /\ outcome[t] = "Fetched" => Persisted[UrlOf(t)] = Key(EntryOf(respLog[t]))
              /\ outcome[t] = "Unchanged" => Persisted[UrlOf(t)] = loaded[UrlOf(t)]
        /\ (\E t \in Tasks : outcome[t] = "Failed") => exitCode # 0

(* C5 as amended: the same, except that the entry of an Unchanged task is as
   loaded or, when the catalog lists its URL again, the entry a Fetched task
   of that URL has written in the run. *)
C5_FailureIsolatedPerUrl ==
    (prog = "pool" /\ mainpc = "done") =>
        /\ persistCount = 1
        /\ \A t \in Tasks :
              /\ outcome[t] = "Fetched" => Persisted[UrlOf(t)] = Key(EntryOf(respLog[t]))
              /\ outcome[t] = "Unchanged" =>
                    \/ Persisted[UrlOf(t)] = loaded[UrlOf(t)]
                    \/ \E t2 \in Tasks \ {t} :
                          /\ UrlOf(t2) = UrlOf(t) /\ outcome[t2] = "Fetched"
                          /\ Persisted[UrlOf(t)] = Key(EntryOf(respLog[t2]))
        /\ (\E t \in Tasks : outcome[t] = "Failed") => exitCode # 0

C5_Witness ==
    /\ prog = "pool" /\ mainpc = "done" /\ exitCode = 1
    /\ \E t \in Tasks : Sole(t) /\ outcome[t] = "Fetched"
                        /\ Persisted[UrlOf(t)] # loaded[UrlOf(t)]
    /\ \E t \in Tasks : Sole(t) /\ outcome[t] = "Unchanged"
    /\ \E t \in Tasks : outcome[t] = "Failed"

(* C6: in both programs the step in which io.Copy fails leaves the archive as
   it is, and the task then ends Failed with its temp file gone and the
   archive still untouched; and whenever the bytes at a final path change,
   they become the bytes of a fully written temp file that the same step
   renames away. *)
C6_Step ==
    /\ \A w \in Workers :
          /\ (pc[w] = "copy" /\ pc'[w] = "return") =>
                /\ files' = files
                /\ err'[w]
          /\ (pc[w] = "return" /\ err[w] /\ pc'[w] # "return") =>
                /\ files' = files
                /\ ~\E t \in temps' : t.name = tmpFile[w]
                /\ outcome'[task[w].id] = "Failed"
    /\ (mainpc = "s_copy" /\ mainpc' = "range") =>
          /\ files' = files
          /\ ~\E t \in temps' : t.name = seq.tmpFile
          /\ outcome'[seq.task.id] = "Failed"
    /\ \A p \in Paths :
          (files'[p].exists # files[p].exists \/ files'[p].content # files[p].content) =>
              \E t \in temps : /\ t \notin temps'
                               /\ t.content = files'[p].content
                               /\ t.content \in FullBodies
C6_NoPartialFile == [][C6_Step]_vars

C6_Witness ==
    \E w \in Workers :
        /\ pc[w] = "return" /\ err[w]
        /\ \E t \in temps : t.name = tmpFile[w] /\ t.content = Partial(resp[w].body)
        /\ \E p \in Paths : files[p].exists

\* the task ended Fetched on a 200 whose Last-Modified, if any, is an HTTP date
FetchedOn200(t) ==
    /\ outcome[t] = "Fetched" /\ Sole(t)
    /\ respLog[t].status = 200
    /\ respLog[t].lm \in ParseableTimes \cup {""}

(* C7 as stated: once a task has ended Fetched on a 200, the entry of its URL
   is made of the two header values of that response, an absent header giving
   an empty field, whatever the entry was before. *)
C7_EntryFromResponseOnly ==
    \A t \in Tasks :
        FetchedOn200(t) => metadata[UrlOf(t)] = Key(HeadersOf(respLog[t]))

\* the same for the worker-pool program alone
C7_PoolEntryFromResponseOnly ==
    prog = "pool" => C7_EntryFromResponseOnly

\* the origin answered the task's request (no transport error, no 5xx)
Answered(t) == reqs[t] >= 1 /\ respLog[t].status \in {200, 304}

(* C8 as stated: when a later run of the worker-pool program has reached its
   normal exit, every task of the run before having ended Fetched or
   Unchanged and the origin having answered every request of this run, every
   task has ended Unchanged, the archive is as the run before left it and so
   is the metadata file. *)
C8_SecondRunUnchanged ==
    (/\ prog = "pool" /\ run > 1 /\ mainpc = "done"
     /\ \A t \in Tasks : prev.outcome[t] \in {"Fetched", "Unchanged"} /\ Answered(t))
    => /\ \A t \in Tasks : outcome[t] = "Unchanged"
       /\ files = prev.files
       /\ metadataFile = prev.metadataFile

\* the run before ended well for the task and left a validator for its URL
Recorded(t) ==
    /\ prev.outcome[t] \in {"Fetched", "Unchanged"}
    /\ readMetadata(prev.metadataFile)[UrlOf(t)].present
    /\ readMetadata(prev.metadataFile)[UrlOf(t)].entry # ZeroEntry

(* C8 as amended: in a later run of the worker-pool program, a task whose URL
   the run before fetched or found unchanged, leaving an ETag or a
   Last-Modified on record, and whose request the origin answers, ends
   Unchanged: it makes no temp file, the file at its path is as the run
   before left it, and its entry is the recorded one, also in the file the
   run writes. *)
C8_RecordedThenUnchanged ==
    (prog = "pool" /\ run > 1) =>
        \A t \in Tasks : (Recorded(t) /\ Answered(t)) =>
            /\ outcome[t] = "Unchanged"
            /\ ~\E f \in temps : f.name = <<run, t>>
            /\ SolePath(t) => files[PathOf(t)] = prev.files[PathOf(t)]
            /\ metadata[UrlOf(t)] = readMetadata(prev.metadataFile)[UrlOf(t)]
            /\ mainpc = "done" =>
                  Persisted[UrlOf(t)] = readMetadata(prev.metadataFile)[UrlOf(t)]

C8_Witness ==
    /\ prog = "pool" /\ run > 1 /\ mainpc = "done"
    /\ \E t \in Tasks : /\ prev.outcome[t] = "Fetched"
                        /\ Recorded(t) /\ Answered(t)
                        /\ outcome[t] = "Unchanged"
                        /\ files[PathOf(t)].exists

(* C9 as stated: no task sends more than one HTTP request in a run. *)
C9_OneRequestPerTask ==
    \A t \in Tasks : reqs[t] <= 1

\* the run is over with every task done and, in the worker-pool program, the
\* channel closed and drained and every worker gone
Finished ==
    /\ mainpc = "done"
    /\ \A t \in Tasks : Ended(t)
    /\ prog = "pool" => closed /\ tasks = <<>> /\ AllExited /\ \A t \in Tasks : recvs[t] = 1

(* C10: under fair scheduling every run ends: either by a fatal abort, or at
   its normal exit with every task of the catalog processed, the channel
   closed and empty and every worker exited -- for the empty catalog and for
   one with more tasks than buffer and pool hold together. *)
C10_Terminates == <>(mainpc = "fatal" \/ Finished)

C10_Witness ==
    /\ prog = "pool" /\ Finished
    /\ Cardinality(Tasks) > 2 * maxParallel

\* the places of a goroutine between mu.Lock() and mu.Unlock()
Critical == {"read", "write", "seterr"}
InCritical(w) == pc[w] \in Critical

\* what a step of the concurrent phase may do to the shared map and flag, and
\* where the goroutine that does it stands
C11_Step ==
    (prog = "pool" /\ mainpc \in {"spawn", "dispatch", "wait"}) =>
        /\ metadata' # metadata =>
              \E w \in Workers : /\ mu = w /\ pc[w] = "write" /\ pc'[w] # "write"
                                 /\ \A u \in AllUrls \ {task[w].url} : metadata'[u] = metadata[u]
        /\ hadError' # hadError =>
              \E w \in Workers : mu = w /\ pc[w] = "seterr" /\ pc'[w] # "seterr"
        /\ \A w \in Workers :
              /\ (meta'[w] # meta[w] /\ meta'[w] # ZeroEntry) => (mu = w /\ pc[w] = "read")
              /\ (mu = w /\ pc'[w] # pc[w]) =>
                    /\ mu' = 0
                    /\ UNCHANGED <<diskVars, reqs, respLog, tasks>>
        /\ (files' # files \/ temps' # temps \/ reqs' # reqs) =>
              \E w \in Workers : pc'[w] # pc[w] /\ mu # w /\ ~InCritical(w)

(* C11: in the worker-pool program, while workers run, a goroutine is between
   Lock and Unlock exactly when it holds the mutex, so at most one is; the
   shared map is read and written and the flag is written only by the holder,
   whose step touches nothing but that entry or the flag and releases the
   mutex; and every step that sends a request or touches a file is taken by a
   goroutine that does not hold the mutex. *)
C11_MutexDiscipline ==
    /\ [](prog = "pool" =>
            /\ \A w \in Workers : InCritical(w) <=> mu = w
            /\ \A w1, w2 \in Workers : (InCritical(w1) /\ InCritical(w2)) => w1 = w2)
    /\ [][C11_Step]_vars

C11_Witness ==
    /\ prog = "pool"
    /\ \E w1, w2 \in Workers :
          /\ mu = w1 /\ pc[w1] = "write"
          /\ pc[w2] \in {"lockread", "lockwrite", "lockerr"}
    /\ hadError

\* the task's os.Rename has returned nil in this run
Renamed(t) ==
    \/ outcome[t] = "Fetched"
    \/ \E w \in Workers : /\ task[w].id = t /\ ~err[w]
                          /\ pc[w] \in {"newmeta", "lockwrite", "write", "return"}
    \/ seq.task.id = t /\ mainpc = "s_meta"

\* a step that changes the map changes the entry of one URL, for a task that
\* is still running and has its file in place
C12_Step ==
    metadata' # metadata =>
        \E t \in Tasks :
            /\ outcome[t] = "none" /\ Renamed(t)
            /\ files[PathOf(t)].exists
            /\ SolePath(t) => files[PathOf(t)].content = respLog[t].body
            /\ \A u \in AllUrls \ {UrlOf(t)} : metadata'[u] = metadata[u]

(* C12: in both programs an entry of the map is changed only by a task whose
   file has been renamed onto its final path; an entry that differs from the
   loaded one belongs to a URL with such a task, whose file exists; and the
   URL of a task that ended Unchanged or Failed, no other task fetching that
   URL, has its entry as loaded, in the map and in the file the run writes. *)
C12_EntryOnlyAfterRename ==
    /\ [](/\ \A u \in AllUrls : metadata[u] # loaded[u] =>
                \E t \in Tasks : UrlOf(t) = u /\ Renamed(t) /\ files[PathOf(t)].exists
          /\ \A t \in Tasks : (Sole(t) /\ outcome[t] \in {"Unchanged", "Failed"}) =>
                /\ metadata[UrlOf(t)] = loaded[UrlOf(t)]
                /\ mainpc = "done" => Persisted[UrlOf(t)] = loaded[UrlOf(t)])
    /\ [][C12_Step]_vars

C12_Witness ==
    /\ mainpc = "done"
    /\ \E t \in Tasks : /\ outcome[t] = "Failed" /\ respLog[t].status = 200
                        /\ ~files[PathOf(t)].exists
                        /\ loaded[UrlOf(t)].present
                        /\ Persisted[UrlOf(t)] = loaded[UrlOf(t)]
    /\ \E t \in Tasks : /\ outcome[t] = "Fetched"
                        /\ Persisted[UrlOf(t)] # loaded[UrlOf(t)]

\* the step in which a task ends Unchanged, and every step of a goroutine up
\* to the answer to its request, leave the disk, the map and the flag alone
C13_Step ==
    /\ (\E t \in Tasks : outcome[t] = "none" /\ outcome'[t] = "Unchanged") =>
          UNCHANGED <<diskVars, metadata, hadError>>
    /\ \A w \in Workers :
          (pc[w] \in {"recv", "lockread", "read", "request"} /\ pc'[w] # pc[w]
           /\ pc'[w] \in {"recv", "lockread", "read", "request", "createtemp", "exited"}) =>
              UNCHANGED <<diskVars, metadata, hadError>>

(* C13: in both programs a task that ends Unchanged changes nothing that
   lasts: the step in which the 304 arrives and the steps before it leave the
   archive, the temp files, the metadata file, the map and the flag as they
   are; an Unchanged task has no temp file, and when no other task shares its
   path or its URL the file at its path and its entry are as they were when
   the run began; and the flag is set only when some task has Failed. *)
C13_UnchangedIsNoOp ==
    /\ [](/\ hadError => \E t \in Tasks : outcome[t] = "Failed"
          /\ \A t \in Tasks : outcome[t] = "Unchanged" =>
                /\ ~\E f \in temps : f.name = <<run, t>>
                /\ SolePath(t) => files[PathOf(t)] = prev.files[PathOf(t)]
                /\ Sole(t) => metadata[UrlOf(t)] = loaded[UrlOf(t)])
    /\ [][C13_Step]_vars

C13_Witness ==
    /\ mainpc = "done" /\ exitCode = 0
    /\ \E t \in Tasks : outcome[t] = "Unchanged" /\ respLog[t].status = 304
                        /\ loaded[UrlOf(t)].present
    /\ \E t \in Tasks : outcome[t] = "Fetched" /\ files[PathOf(t)].exists

\* the tasks a worker has received and not yet finished
InFlight == {t \in Tasks : recvs[t] >= 1 /\ outcome[t] = "none"}
Goroutines == {w \in Workers : pc[w] # "nostart"}

(* C14: in the worker-pool program at most maxParallel tasks are in flight,
   the channel never holds more than maxParallel tasks, main starts exactly
   maxParallel goroutines before it dispatches, none of them leaves before
   the channel is closed, and the WaitGroup counts those that have not left. *)
C14_Bounded ==
    prog = "pool" =>
        /\ Cardinality(InFlight) <= maxParallel
        /\ Len(tasks) <= maxParallel
        /\ Cardinality(Goroutines) = spawned
        /\ spawned <= maxParallel
        /\ mainpc # "spawn" => spawned = maxParallel
        /\ ~closed => \A w \in Workers : pc[w] # "exited"
        /\ wg = Cardinality({w \in Goroutines : pc[w] # "exited"})

C14_Witness ==
    /\ prog = "pool" /\ mainpc = "dispatch" /\ ~DirDone
    /\ Len(tasks) = maxParallel
    /\ Cardinality(InFlight) = maxParallel

(* C15 as stated: when a run of the worker-pool program in which every task
   ended Fetched has reached its normal exit, tasks of different URLs have
   different destination paths, and the file at each task's path holds the
   bytes fetched from its URL. *)
C15_OneFilePerUrl ==
    (prog = "pool" /\ mainpc = "done" /\ \A t \in Tasks : outcome[t] = "Fetched") =>
        \A t1, t2 \in Tasks :
            /\ UrlOf(t1) # UrlOf(t2) => PathOf(t1) # PathOf(t2)
            /\ files[PathOf(t1)].exists
            /\ files[PathOf(t1)].content = BodyOf(UrlOf(t1))

(* C16 as stated: no two workers hold a task of the same URL at the same
   time. *)
C16_OneTaskPerUrl ==
    \A w1, w2 \in Workers :
        (w1 # w2 /\ task[w1] # NoTask /\ task[w2] # NoTask) => task[w1].url # task[w2].url

InChannel(t) == \E i \in 1..Len(tasks) : tasks[i].id = t
\* the run has begun to work on the task
Touched(t) == InChannel(t) \/ recvs[t] > 0 \/ reqs[t] > 0 \/ outcome[t] # "none"
\* the process has ended in the log.Fatalf that follows os.MkdirAll
MkdirFatal == mainpc = "fatal" /\ dirsLeft # {}

(* C17: in both programs a task is sent, received or requested only when
   os.MkdirAll has made its directory; when os.MkdirAll fails the process has
   status 1, no task of the failed directory or of a directory not yet ranged
   over has been touched, the metadata file has not been written; and once
   the process has aborted nothing changes any more: no file appears, no
   temp file changes, no entry is set, whatever a task was doing. *)
C17_MkdirFirstAndFatal ==
    /\ [](/\ \A t \in Tasks : Touched(t) => t[1] \in dirsMade
          /\ MkdirFatal =>
                /\ exitCode = 1
                /\ persistCount = 0
                /\ \A t \in Tasks : t[1] \in dirsLeft => ~Touched(t))
    /\ [][mainpc = "fatal" => UNCHANGED vars]_vars

C17_Witness ==
    /\ prog = "pool" /\ MkdirFatal
    /\ \E w \in Workers : /\ pc[w] = "rename"
                          /\ \E f \in temps : f.name = tmpFile[w]
                          /\ ~files[OutPath(task[w].dir, task[w].url, today)].exists
    /\ \E t \in Tasks : t[1] \in dirsLeft

\* every file that the run has put into the archive belongs to a task that
\* ended Fetched and whose URL has the entry of its response in the file
ArchiveRecorded ==
    \A p \in Paths : files[p] # prev.files[p] =>
        \E t \in Tasks : /\ PathOf(t) = p
                         /\ outcome[t] = "Fetched"
                         /\ files[p].content = respLog[t].body
                         /\ Persisted[UrlOf(t)] = Key(EntryOf(respLog[t]))

(* C18 as stated: whenever the worker-pool program has ended, by its normal
   exit or by a fatal abort, every file the run has renamed into the archive
   has the metadata of its fetch in the persisted file. *)
C18_FileAgreesAtEveryEnd ==
    (prog = "pool" /\ mainpc \in {"done", "fatal"}) => ArchiveRecorded

(* C18 as amended: the same when the worker-pool program has ended by its
   normal exit. *)
C18_FileAgreesAtNormalExit ==
    (prog = "pool" /\ mainpc = "done") => ArchiveRecorded

C18_Witness ==
    /\ prog = "pool" /\ mainpc = "done" /\ exitCode = 1
    /\ \E p \in Paths : files[p].exists /\ files[p].mtime = "T1"
    /\ \E t \in Tasks : outcome[t] = "Failed" /\ ~files[PathOf(t)].exists
    /\ ArchiveRecorded

(* C19 as stated: once a task has ended, no temp file it created is left
   under its temporary name; every temp file lies in the directory of the
   task that created it, and no two temp files have the same name. *)
C19_TempsReleased ==
    /\ \A t \in Tasks : Ended(t) => ~\E f \in temps : f.name = <<run, t>>
    /\ \A f \in temps : f.dir = f.name[2][1]
    /\ \A f1, f2 \in temps : f1.name = f2.name => f1 = f2

\* the same for the worker-pool program alone
C19_PoolTempsReleased ==
    prog = "pool" => C19_TempsReleased

\* the task has ended after os.Chtimes failed on its file: the file is in
\* place with the time of its writing although the response carried an
\* HTTP date
ChtimesFailed(t) ==
    /\ Ended(t) /\ SolePath(t) /\ Sole(t)
    /\ respLog[t].status = 200 /\ respLog[t].lm \in ParseableTimes
    /\ files[PathOf(t)].exists /\ files[PathOf(t)].mtime = "now"

(* C20: in both programs a task whose os.Chtimes failed has ended Fetched,
   with the Last-Modified value of its response recorded for its URL, in the
   map and in the file the run writes; the flag is set only when some task
   has Failed, and a run in which all tasks ended Fetched or Unchanged exits
   with status 0. *)
C20_ChtimesBestEffort ==
    \A t \in Tasks : ChtimesFailed(t) =>
        /\ outcome[t] = "Fetched"
        /\ metadata[UrlOf(t)].present
        /\ metadata[UrlOf(t)].entry.LastModified = respLog[t].lm
        /\ respLog[t].etag # "" => metadata[UrlOf(t)].entry.ETag = respLog[t].etag
        /\ hadError => \E t2 \in Tasks \ {t} : outcome[t2] = "Failed"
        /\ mainpc = "done" =>
              /\ Persisted[UrlOf(t)].entry.LastModified = respLog[t].lm
              /\ (\A t2 \in Tasks : Good(t2)) => exitCode = 0

C20_Witness ==
    /\ mainpc = "done" /\ exitCode = 0
    /\ \E t \in Tasks : /\ ChtimesFailed(t)
                        /\ Persisted[UrlOf(t)].entry.LastModified = "T1"
                        /\ loaded[UrlOf(t)].entry.LastModified # "T1"

====
